---- MODULE Spec2Model ----
(***************************************************************************)
(* Model of src/models/transaction.rs: validate_transaction,               *)
(* transaction_signature_to_field_elements and                             *)
(* transaction_data_to_starknet_calldata.                                  *)
(*                                                                         *)
(* 256-bit integers and field elements are 32-byte big-endian sequences,   *)
(* so that the arithmetic keeps its true width (the TLC integers stop at   *)
(* 2^31).  An Option<T> is <<>> (None) or <<x>> (Some(x)).                  *)
(***************************************************************************)
EXTENDS Integers, Sequences, FiniteSets, TLC

VARIABLES pc, op, tx, chain_id, header, whitelist,
          retries, hive, max_felts, base_selector, result

vars == <<pc, op, tx, chain_id, header, whitelist,
          retries, hive, max_felts, base_selector, result>>

(***************************************************************************)
(* Bounds of the model.                                                    *)
(***************************************************************************)
\* payload lengths range around 1..MaxChunks multiples of the chunk size
MaxChunks == 3
\* the chain ids are 1..MaxChainId
MaxChainId == 2

(***************************************************************************)
(* Big-endian byte arithmetic on 32-byte words.                            *)
(***************************************************************************)
None == <<>>

Some(x) == <<x>>

Zeros(n) == [i \in 1..n |-> 0]

Pad32(b) == Zeros(32 - Len(b)) \o b

\* a < b for two words of the same length
Less(a, b) ==
    \E i \in 1..Len(a) : a[i] < b[i] /\ \A j \in 1..(i - 1) : a[j] = b[j]

RECURSIVE AddFrom(_, _, _, _)
AddFrom(a, b, i, c) ==
    IF i = 0 THEN <<>>
    ELSE AddFrom(a, b, i - 1, (a[i] + b[i] + c) \div 256)
             \o <<(a[i] + b[i] + c) % 256>>

\* a + b modulo 2^256
Add(a, b) == AddFrom(a, b, 32, 0)

RECURSIVE SubFrom(_, _, _, _)
SubFrom(a, b, i, c) ==
    IF i = 0 THEN <<>>
    ELSE SubFrom(a, b, i - 1, IF a[i] - b[i] - c < 0 THEN 1 ELSE 0)
             \o <<(a[i] - b[i] - c + 256) % 256>>

\* a - b modulo 2^256
Sub(a, b) == SubFrom(a, b, 32, 0)

RECURSIVE NatBytes(_)
NatBytes(n) == IF n = 0 THEN <<>> ELSE NatBytes(n \div 256) \o <<n % 256>>

\* the value of a word that fits 31 bits
ToNat(w) == ((w[29] * 256 + w[30]) * 256 + w[31]) * 256 + w[32]

IsSmall(w) == (\A i \in 1..28 : w[i] = 0) /\ w[29] < 128

(***************************************************************************)
(* Felt: the Starknet field, modulus P = 2^251 + 17 * 2^192 + 1.           *)
(***************************************************************************)
P == <<8, 0, 0, 0, 0, 0, 0, 17>> \o Zeros(23) \o <<1>>

RECURSIVE FeltReduce(_)
FeltReduce(w) == IF Less(w, P) THEN w ELSE FeltReduce(Sub(w, P))

\* Felt::from(u64), Felt::from(usize), Felt::from(u8), Felt::from(u128)
FeltFromNat(n) == Pad32(NatBytes(n))

\* Felt::from_bytes_be_slice for a slice of at most 32 bytes
from_bytes_be_slice(bytes) == FeltReduce(Pad32(bytes))

FeltAdd(a, b) == FeltReduce(Add(a, b))

FeltSub(a, b) == IF Less(a, b) THEN Sub(Add(a, P), b) ELSE Sub(a, b)

Felt_ZERO == FeltFromNat(0)

Felt_ONE == FeltFromNat(1)

Felt_MAX == Sub(P, Felt_ONE)

(***************************************************************************)
(* Results.                                                                *)
(***************************************************************************)
Ok(v) == [tag |-> "Ok", err |-> "", args |-> <<>>, value |-> v]

Err(e, a) == [tag |-> "Err", err |-> e, args |-> a, value |-> <<>>]

\* a failed assert!: the thread panics, nothing is returned
Panic == [tag |-> "Panic", err |-> "", args |-> <<>>, value |-> <<>>]

NoResult == [tag |-> "None", err |-> "", args |-> <<>>, value |-> <<>>]

(***************************************************************************)
(* validate_transaction                                                    *)
(***************************************************************************)
TRACING_BLOCK_GAS_LIMIT == 1000000000

unwrap_or_default(o) == IF o = None THEN 0 ELSE o[1]

\* TransactionSigned::max_fee_per_gas: the gas price of a legacy or
\* access-list transaction, the fee cap of a dynamic-fee one
max_fee_per_gas(t) == t.max_fee_per_gas

\* TransactionSigned::max_priority_fee_per_gas: None unless dynamic-fee
max_priority_fee_per_gas(t) ==
    IF t.kind = "Eip1559" THEN t.max_priority_fee_per_gas ELSE None

GasOverflow(t) == t.gas_limit > TRACING_BLOCK_GAS_LIMIT

ChainIdMatchesM(maybe_chain_id, c) == TRUE

ChainIdMatches(maybe_chain_id, c) ==
    IF maybe_chain_id = None THEN TRUE ELSE maybe_chain_id[1] = c

NotWhitelistedM(t, wl) == t.hash \notin wl

NotWhitelisted(t, wl) == t.chain_id = None /\ t.hash \notin wl

FeeChecks(t, h) ==
    LET base_fee == unwrap_or_default(h.base_fee_per_gas)
        max_fee  == max_fee_per_gas(t)
        tip      == unwrap_or_default(max_priority_fee_per_gas(t))
    IN  IF base_fee > max_fee
          THEN Err("FeeCapTooLow", <<max_fee, base_fee>>)
        ELSE IF tip > max_fee
          THEN Err("TipAboveFeeCap", <<max_fee, tip>>)
        ELSE IF t.gas_limit > h.gas_limit
          THEN Err("ExceedsBlockGasLimit", <<t.gas_limit, h.gas_limit>>)
        ELSE Ok(<<>>)

\* the checks in the order of the doc comment: chain id and whitelist
\* before the signature
validate_transactionM(t, c, h, wl) ==
    IF GasOverflow(t) THEN Err("GasOverflow", <<>>)
    ELSE IF ~ChainIdMatches(t.chain_id, c) THEN Err("InvalidChainId", <<>>)
    ELSE IF NotWhitelisted(t, wl) THEN Err("InvalidTransactionType", <<>>)
    ELSE IF ~t.recoverable THEN Err("SignatureRecovery", <<>>)
    ELSE FeeChecks(t, h)

validate_transaction(t, c, h, wl) ==
    IF GasOverflow(t) THEN Err("GasOverflow", <<>>)
    ELSE IF ~t.recoverable THEN Err("SignatureRecovery", <<>>)
    ELSE IF ~ChainIdMatches(t.chain_id, c) THEN Err("InvalidChainId", <<>>)
    ELSE IF NotWhitelisted(t, wl) THEN Err("InvalidTransactionType", <<>>)
    ELSE FeeChecks(t, h)

(***************************************************************************)
(* transaction_signature_to_field_elements                                 *)
(***************************************************************************)
\* utils::split_u256: the two 128-bit halves of a 256-bit value, each
\* converted with Felt::from(u128)
split_u256(x) == <<Pad32(SubSeq(x, 1, 16)), Pad32(SubSeq(x, 17, 32))>>

\* Signature::v: {0, 1} + chain_id * 2 + 35, or {0, 1} + 27 for
\* pre EIP-155 transactions
v(sig, maybe_chain_id) ==
    IF maybe_chain_id = None THEN sig.odd_y_parity + 27
    ELSE sig.odd_y_parity + maybe_chain_id[1] * 2 + 35

transaction_signature_to_field_elementsM(t) ==
    split_u256(t.signature.r) \o split_u256(t.signature.s)
        \o (IF t.kind # "Legacy"
              THEN <<FeltFromNat(v(t.signature, t.chain_id))>>
              ELSE <<FeltFromNat(t.signature.odd_y_parity)>>)

transaction_signature_to_field_elements(t) ==
    split_u256(t.signature.r) \o split_u256(t.signature.s)
        \o (IF t.kind = "Legacy"
              THEN <<FeltFromNat(v(t.signature, t.chain_id))>>
              ELSE <<FeltFromNat(t.signature.odd_y_parity)>>)

(***************************************************************************)
(* transaction_data_to_starknet_calldata                                   *)
(***************************************************************************)
\* kakarot_core::KAKAROT_ADDRESS, read from the environment at start-up
KAKAROT_ADDRESS == Pad32(<<4, 210, 22, 46>>)

\* slice::chunks(n): consecutive chunks of n bytes, the last one possibly
\* shorter
RECURSIVE chunks(_, _)
chunks(bytes, n) ==
    IF Len(bytes) = 0 THEN <<>>
    ELSE IF Len(bytes) <= n THEN <<bytes>>
    ELSE <<SubSeq(bytes, 1, n)>> \o chunks(SubSeq(bytes, n + 1, Len(bytes)), n)

packed_dataM(bytes) ==
    LET cs == chunks(bytes, 32)
    IN  <<FeltFromNat(Len(bytes))>>
            \o [i \in 1..Len(cs) |-> from_bytes_be_slice(cs[i])]

\* the length of the payload, then the payload in 31-byte chunks
packed_data(bytes) ==
    LET cs == chunks(bytes, 31)
    IN  <<FeltFromNat(Len(bytes))>>
            \o [i \in 1..Len(cs) |-> from_bytes_be_slice(cs[i])]

CalldataTooLargeM(capacity, isHive, maxFelts) ==
    ~isHive /\ capacity >= maxFelts

\* the size check, compiled out under the "hive" feature
CalldataTooLarge(capacity, isHive, maxFelts) ==
    ~isHive /\ capacity > maxFelts

SelectorFitsM(base, r) == Less(Add(base, FeltFromNat(r)), P)

SelectorFitsAlways(base, r) == TRUE

\* assert!(*ETH_SEND_TRANSACTION < Felt::MAX - Felt::from(retries))
SelectorFits(base, r) == Less(base, FeltSub(Felt_MAX, FeltFromNat(r)))

SelectorM(base, r) == base

Selector(base, r) == FeltAdd(base, FeltFromNat(r))

CallArrayM(selector, signed_data) ==
    << Felt_ONE, KAKAROT_ADDRESS, selector, Felt_ZERO,
       FeltFromNat(Len(signed_data) - 1), FeltFromNat(Len(signed_data)) >>

CallArray(selector, signed_data) ==
    << Felt_ONE, KAKAROT_ADDRESS, selector, Felt_ZERO,
       FeltFromNat(Len(signed_data)), FeltFromNat(Len(signed_data)) >>

transaction_data_to_starknet_calldata(t, r, isHive, maxFelts, base) ==
    LET signed_data == packed_data(t.encoded)
        capacity    == 6 + Len(signed_data)
    IN  IF CalldataTooLarge(capacity, isHive, maxFelts)
          THEN Err("CalldataExceededLimit", <<maxFelts, capacity>>)
        ELSE IF ~SelectorFits(base, r) THEN Panic
        ELSE Ok(CallArray(Selector(base, r), signed_data) \o signed_data)

(***************************************************************************)
(* The inputs of the three functions.                                      *)
(***************************************************************************)
Kinds == {"Legacy", "Eip2930", "Eip1559"}

ChainIds == 1..MaxChainId

\* only a legacy transaction can lack a chain id
MaybeChainIds(kind) ==
    {Some(c) : c \in ChainIds} \cup (IF kind = "Legacy" THEN {None} ELSE {})

\* only a dynamic-fee transaction has a priority fee
PriorityFees(kind) ==
    IF kind = "Eip1559" THEN {Some(0), Some(3), Some(10)} ELSE {None}

GasLimits == {21000, 30000000, TRACING_BLOCK_GAS_LIMIT,
              TRACING_BLOCK_GAS_LIMIT + 1}

BlockGasLimits == {15000000, 30000000}

Hashes == {"h1", "h2"}

Whitelists == {{}, {"h1"}}

Half(a, b) == <<a>> \o [i \in 1..15 |-> b]

Halves == {Half(0, 0), Half(0, 1), Half(128, 0), Half(255, 255)}

U256Values == {h \o l : h \in Halves, l \in Halves}

NoSignature == [r |-> Zeros(32), s |-> Zeros(32), odd_y_parity |-> 0]

Signatures ==
    [r : U256Values, s : {Half(0, 1) \o Half(128, 0), Half(255, 255) \o Half(0, 1)},
     odd_y_parity : {0, 1}]

\* the first byte of the encoding without signature: the transaction type
\* of a typed transaction, an RLP list header of a legacy one
TypeByte(kind) ==
    IF kind = "Eip2930" THEN 1 ELSE IF kind = "Eip1559" THEN 2 ELSE 248

Payload(kind, n, a, b) ==
    [i \in 1..n |-> IF i = 1 THEN TypeByte(kind)
                    ELSE IF i % 31 = 1 THEN a ELSE b]

PayloadLens == UNION {{31 * k - 1, 31 * k, 31 * k + 1} : k \in 1..MaxChunks}

Payloads(kind) ==
    {Payload(kind, n, ab[1], ab[2]) :
        n \in PayloadLens, ab \in {<<0, 0>>, <<0, 1>>, <<255, 255>>}}

NoPayload == <<248>>

RetriesSet == {0, 1, 2, 254, 255}

MaxFeltsSet == {7 + k : k \in 1..MaxChunks}

\* a Starknet entry point selector is a 250-bit value
SelectorValues == {Pad32(<<3>> \o [i \in 1..31 |-> 255]),
                   Pad32(<<2, 209>> \o [i \in 1..30 |-> 7])}

\* field elements next to the modulus
LargeFelts == {Sub(P, FeltFromNat(k)) : k \in {1, 2, 3, 255, 256, 257, 258}}

MkTx(kind, cid, gas, rec, hash, fee, tip, sig, enc) ==
    [kind |-> kind, chain_id |-> cid, gas_limit |-> gas, recoverable |-> rec,
     hash |-> hash, max_fee_per_gas |-> fee, max_priority_fee_per_gas |-> tip,
     signature |-> sig, encoded |-> enc]

NoHeader == [base_fee_per_gas |-> None, gas_limit |-> 30000000]

(***************************************************************************)
(* The state machine: one call of one of the three functions.              *)
(***************************************************************************)
InitValidate ==
    /\ op = "validate"
    /\ \E kind \in Kinds :
         \E cid \in MaybeChainIds(kind), tip \in PriorityFees(kind),
            gas \in GasLimits, rec \in BOOLEAN, hash \in Hashes,
            fee \in {3, 7} :
              tx = MkTx(kind, cid, gas, rec, hash, fee, tip,
                        NoSignature, NoPayload)
    /\ chain_id \in ChainIds
    /\ header \in [base_fee_per_gas : {None, Some(3), Some(5)},
                   gas_limit : BlockGasLimits]
    /\ whitelist \in Whitelists
    /\ retries = 0 /\ hive = FALSE /\ max_felts = 0
    /\ base_selector = Felt_ZERO

InitExtract ==
    /\ op = "extract"
    /\ \E kind \in Kinds :
         \E cid \in MaybeChainIds(kind), sig \in Signatures :
              tx = MkTx(kind, cid, 21000, TRUE, "h1", 3, None, sig, NoPayload)
    /\ chain_id = 1 /\ header = NoHeader /\ whitelist = {}
    /\ retries = 0 /\ hive = FALSE /\ max_felts = 0
    /\ base_selector = Felt_ZERO

InitEncode(selectors) ==
    /\ op = "encode"
    /\ \E kind \in Kinds :
         \E enc \in Payloads(kind) :
              tx = MkTx(kind, Some(1), 21000, TRUE, "h1", 3, None,
                        NoSignature, enc)
    /\ chain_id = 1 /\ header = NoHeader /\ whitelist = {}
    /\ retries \in RetriesSet
    /\ hive \in BOOLEAN
    /\ max_felts \in MaxFeltsSet
    /\ base_selector \in selectors

Init ==
    /\ pc = "call"
    /\ result = NoResult
    /\ (InitValidate \/ InitExtract \/ InitEncode(SelectorValues))

Validate ==
    /\ pc = "call" /\ op = "validate"
    /\ result' = validate_transaction(tx, chain_id, header, whitelist)
    /\ pc' = "done"
    /\ UNCHANGED <<op, tx, chain_id, header, whitelist,
                   retries, hive, max_felts, base_selector>>

Extract ==
    /\ pc = "call" /\ op = "extract"
    /\ result' = Ok(transaction_signature_to_field_elements(tx))
    /\ pc' = "done"
    /\ UNCHANGED <<op, tx, chain_id, header, whitelist,
                   retries, hive, max_felts, base_selector>>

Encode ==
    /\ pc = "call" /\ op = "encode"
    /\ result' = transaction_data_to_starknet_calldata(
                     tx, retries, hive, max_felts, base_selector)
    /\ pc' = "done"
    /\ UNCHANGED <<op, tx, chain_id, header, whitelist,
                   retries, hive, max_felts, base_selector>>

Next == Validate \/ Extract \/ Encode

Spec == Init /\ [][Next]_vars

\* the encoder with ETH_SEND_TRANSACTION configured to any field element
InitAnySelector ==
    /\ pc = "call"
    /\ result = NoResult
    /\ InitEncode(SelectorValues \cup LargeFelts)

NextAnySelector == Encode

SpecAnySelector == InitAnySelector /\ [][NextAnySelector]_vars

(***************************************************************************)
(* Properties of validate_transaction.                                     *)
(***************************************************************************)
Validated == pc = "done" /\ op = "validate"

GasFails == tx.gas_limit > TRACING_BLOCK_GAS_LIMIT

SignerFails == ~tx.recoverable

ChainFails == tx.chain_id # None /\ tx.chain_id[1] # chain_id

WhitelistFails == tx.chain_id = None /\ tx.hash \notin whitelist

BaseFee == IF header.base_fee_per_gas = None THEN 0
           ELSE header.base_fee_per_gas[1]

Tip == IF max_priority_fee_per_gas(tx) = None THEN 0
       ELSE max_priority_fee_per_gas(tx)[1]

FeeCapFails == BaseFee > max_fee_per_gas(tx)

TipFails == Tip > max_fee_per_gas(tx)

BlockGasFails == tx.gas_limit > header.gas_limit

\* C1: validate_transaction returns Ok exactly when none of the seven checks
\* fails, and otherwise the error of the first failing check in the order
\* gas ceiling, signer, chain id, whitelist, fee cap, tip, block gas limit.
C1_FirstFailingCheck ==
    Validated =>
      /\ result.tag = "Ok" <=>
           ~(GasFails \/ SignerFails \/ ChainFails \/ WhitelistFails
               \/ FeeCapFails \/ TipFails \/ BlockGasFails)
      /\ GasFails => result = Err("GasOverflow", <<>>)
      /\ ~GasFails /\ SignerFails => result = Err("SignatureRecovery", <<>>)
      /\ ~GasFails /\ ~SignerFails /\ ChainFails
           => result = Err("InvalidChainId", <<>>)
      /\ ~GasFails /\ ~SignerFails /\ ~ChainFails /\ WhitelistFails
           => result = Err("InvalidTransactionType", <<>>)
      /\ ~GasFails /\ ~SignerFails /\ ~ChainFails /\ ~WhitelistFails
           /\ FeeCapFails
           => result = Err("FeeCapTooLow", <<max_fee_per_gas(tx), BaseFee>>)
      /\ ~GasFails /\ ~SignerFails /\ ~ChainFails /\ ~WhitelistFails
           /\ ~FeeCapFails /\ TipFails
           => result = Err("TipAboveFeeCap", <<max_fee_per_gas(tx), Tip>>)
      /\ ~GasFails /\ ~SignerFails /\ ~ChainFails /\ ~WhitelistFails
           /\ ~FeeCapFails /\ ~TipFails /\ BlockGasFails
           => result = Err("ExceedsBlockGasLimit",
                           <<tx.gas_limit, header.gas_limit>>)

\* an unrecoverable signature on a transaction whose chain id is also wrong
C1_Witness ==
    Validated /\ SignerFails /\ ChainFails
        /\ result = Err("SignatureRecovery", <<>>)

\* C2 as stated: a transaction with an explicit chain id different from the
\* expected one always gets InvalidChainId, whatever its other fields.
C2_AlwaysInvalidChainId ==
    Validated /\ ChainFails => result = Err("InvalidChainId", <<>>)

\* C2 amended: a transaction with an explicit chain id different from the
\* expected one gets InvalidChainId provided it passes the gas-ceiling and
\* the signature-recovery checks, whatever its fees and the block context.
C2_InvalidChainIdAfterGasAndSigner ==
    Validated /\ ChainFails /\ ~GasFails /\ ~SignerFails
        => result = Err("InvalidChainId", <<>>)

\* a chain-id mismatch on a transaction that would also fail the fee checks
C2_Witness ==
    Validated /\ ChainFails /\ ~GasFails /\ ~SignerFails
        /\ FeeCapFails /\ BlockGasFails
        /\ result = Err("InvalidChainId", <<>>)

\* C3: InvalidTransactionType is returned only for a transaction without a
\* chain id whose hash is not whitelisted; for such a transaction past the
\* gas and signer checks it is returned iff the hash is not whitelisted, and
\* with the hash added the transaction goes on to the fee checks; a
\* transaction with a chain id never gets it.
C3_WhitelistOnlyWithoutChainId ==
    Validated =>
      /\ result.err = "InvalidTransactionType"
           => tx.chain_id = None /\ tx.hash \notin whitelist
      /\ tx.chain_id # None => result.err # "InvalidTransactionType"
      /\ tx.chain_id = None /\ ~GasFails /\ ~SignerFails
           => /\ result.err = "InvalidTransactionType"
                   <=> tx.hash \notin whitelist
              /\ validate_transaction(tx, chain_id, header,
                                      whitelist \cup {tx.hash})
                   = FeeChecks(tx, header)
              /\ FeeChecks(tx, header).err # "InvalidTransactionType"

\* a pre EIP-155 transaction rejected for its hash
C3_Witness ==
    Validated /\ tx.chain_id = None /\ tx.hash \notin whitelist
        /\ whitelist # {} /\ result.err = "InvalidTransactionType"

(***************************************************************************)
(* Properties of transaction_signature_to_field_elements.                  *)
(***************************************************************************)
Extracted == pc = "done" /\ op = "extract"

\* high * 2^128 + low, for two values below 2^128
Join128(high, low) == Add(SubSeq(high, 17, 32) \o Zeros(16), low)

Below128(w) == \A i \in 1..16 : w[i] = 0

\* C7: the extractor returns the five elements r_high, r_low, s_high, s_low
\* and the recovery element, where high * 2^128 + low is r (resp. s), and
\* the recovery element is parity + 2 * chain_id + 35 for a legacy
\* transaction with a chain id, parity + 27 for one without, and the raw
\* parity for every other kind.
C7_SignatureElements ==
    Extracted =>
      LET e   == result.value
          sig == tx.signature
      IN  /\ result.tag = "Ok"
          /\ Len(e) = 5
          /\ \A i \in 1..4 : Below128(e[i])
          /\ Join128(e[1], e[2]) = sig.r
          /\ Join128(e[3], e[4]) = sig.s
          /\ IsSmall(e[5])
          /\ tx.kind = "Legacy" /\ tx.chain_id # None
               => ToNat(e[5]) = sig.odd_y_parity + 2 * tx.chain_id[1] + 35
          /\ tx.kind = "Legacy" /\ tx.chain_id = None
               => ToNat(e[5]) = sig.odd_y_parity + 27
          /\ tx.kind # "Legacy" => ToNat(e[5]) = sig.odd_y_parity

\* legacy, chain id 1, parity 1: v = 38, with r having both halves non-zero
C7_Witness ==
    Extracted /\ tx.kind = "Legacy" /\ tx.chain_id = Some(1)
        /\ tx.signature.odd_y_parity = 1
        /\ tx.signature.r = Half(255, 255) \o Half(128, 0)
        /\ ToNat(result.value[5]) = 38
        /\ result.value[1] # result.value[2]

(***************************************************************************)
(* Properties of transaction_data_to_starknet_calldata.                    *)
(***************************************************************************)
Encoded == pc = "done" /\ op = "encode"

PayloadLen == Len(tx.encoded)

\* 1 + ceil(len / 31)
PackedLen == 1 + (PayloadLen + 30) \div 31

Capacity == 6 + PackedLen

Packed == SubSeq(result.value, 7, Len(result.value))

\* C4: with the size check enabled and capacity = 6 + len(packed_data) above
\* max_felts the result is CalldataExceededLimit(max_felts, capacity) and no
\* calldata; enabled and capacity <= max_felts, it is not that error;
\* disabled, the call succeeds for every payload size.
C4_SizeCheck ==
    Encoded =>
      /\ ~hive /\ Capacity > max_felts
           => result = Err("CalldataExceededLimit", <<max_felts, Capacity>>)
      /\ ~hive /\ Capacity <= max_felts
           => result.err # "CalldataExceededLimit"
      /\ hive => result.tag = "Ok" /\ Len(result.value) = Capacity

\* the first capacity above the limit
C4_Witness ==
    Encoded /\ ~hive /\ Capacity = max_felts + 1
        /\ result = Err("CalldataExceededLimit", <<max_felts, Capacity>>)

\* C5: a successful result is [1, target, base_selector + retries, 0, n, n]
\* followed by the packed data, n = 1 + ceil(len(payload) / 31) its length.
C5_CalldataShape ==
    Encoded /\ result.tag = "Ok" =>
      LET c == result.value
      IN  /\ Len(c) = 6 + PackedLen
          /\ c[1] = Felt_ONE
          /\ c[2] = KAKAROT_ADDRESS
          /\ c[3] = Add(base_selector, FeltFromNat(retries))
          /\ c[4] = Felt_ZERO
          /\ c[5] = c[6]
          /\ IsSmall(c[5]) /\ ToNat(c[5]) = PackedLen
          /\ Packed = packed_data(tx.encoded)

\* a payload of three chunks encoded with a non-zero retry count
C5_Witness ==
    Encoded /\ result.tag = "Ok" /\ PayloadLen > 62 /\ retries = 2
        /\ Len(result.value) = 10

Min(a, b) == IF a < b THEN a ELSE b

\* the k-th 31-byte chunk of the payload
PayloadChunk(k) == SubSeq(tx.encoded, 31 * (k - 1) + 1, Min(31 * k, PayloadLen))

\* the bytes of the packed elements from the k-th on, each element taken as
\* 31 bytes except the last one, which has what remains of the length
RECURSIVE Unpack(_, _, _)
Unpack(felts, k, remaining) ==
    IF k > Len(felts) THEN <<>>
    ELSE SubSeq(felts[k], 33 - Min(31, remaining), 32)
             \o Unpack(felts, k + 1, remaining - Min(31, remaining))

\* C6: the packed data is the byte length of the payload followed by
\* ceil(len / 31) elements, each the big-endian value of one 31-byte chunk,
\* below 2^248 and below the modulus; the chunks concatenated, the last one
\* at its true length, are the payload.
C6_PackingLossless ==
    Encoded /\ result.tag = "Ok" =>
      /\ Len(Packed) = 1 + (PayloadLen + 30) \div 31
      /\ IsSmall(Packed[1]) /\ ToNat(Packed[1]) = PayloadLen
      /\ \A k \in 1..(Len(Packed) - 1) :
           /\ Packed[k + 1] = Pad32(PayloadChunk(k))
           /\ Packed[k + 1][1] = 0
           /\ Less(Packed[k + 1], P)
      /\ Unpack(Packed, 2, ToNat(Packed[1])) = tx.encoded

\* a payload whose second chunk starts with a zero byte and whose last
\* chunk is a single byte
C6_Witness ==
    Encoded /\ result.tag = "Ok" /\ PayloadLen = 63
        /\ tx.encoded[32] = 0 /\ tx.encoded[33] = 1
        /\ Len(Packed) = 4

OtherRetries(r) ==
    transaction_data_to_starknet_calldata(tx, r, hive, max_felts, base_selector)

\* C8: in a successful result the selector element is the integer
\* base_selector + retries, below the modulus (base_selector < P < 2^252, so
\* the 256-bit sum is the integer sum); a larger retry count gives a larger
\* selector and two retry counts never give the same one.
C8_SelectorNotReduced ==
    Encoded /\ result.tag = "Ok" =>
      /\ result.value[3] = Add(base_selector, FeltFromNat(retries))
      /\ Less(Add(base_selector, FeltFromNat(retries)), P)
      /\ Less(base_selector, P)
      /\ \A r \in RetriesSet :
           OtherRetries(r).tag = "Ok" =>
             /\ r > retries => Less(result.value[3], OtherRetries(r).value[3])
             /\ r # retries => result.value[3] # OtherRetries(r).value[3]

\* the largest retry count on a selector close to the modulus
C8_Witness ==
    Encoded /\ result.tag = "Ok" /\ retries = 255
        /\ base_selector = Sub(P, FeltFromNat(258))
        /\ result.value[3] = Sub(P, FeltFromNat(3))

PassesSizeCheck == hive \/ Capacity <= max_felts

\* C9 as stated: past the size check the encoder aborts exactly when
\* base_selector + retries >= modulus, and returns calldata whenever
\* base_selector + retries < modulus.
C9_AbortIffSumReachesModulus ==
    Encoded /\ PassesSizeCheck =>
      /\ result.tag = "Panic"
           <=> ~Less(Add(base_selector, FeltFromNat(retries)), P)
      /\ Less(Add(base_selector, FeltFromNat(retries)), P)
           => result.tag = "Ok"

\* C9 amended: the encoder aborts exactly when the call passes the size
\* check and base_selector + retries >= modulus - 1 (= Felt::MAX); for
\* base_selector + retries < modulus - 1 past the size check it returns
\* calldata; the abort is not a returned error.
C9_AbortIffSumReachesMax ==
    Encoded =>
      /\ result.tag = "Panic"
           <=> /\ PassesSizeCheck
               /\ ~Less(Add(base_selector, FeltFromNat(retries)), Felt_MAX)
      /\ PassesSizeCheck
           /\ Less(Add(base_selector, FeltFromNat(retries)), Felt_MAX)
           => result.tag = "Ok"
      /\ result.tag = "Panic" => result.err = "" /\ result.value = <<>>
      /\ ~PassesSizeCheck => result.err = "CalldataExceededLimit"

\* base_selector + retries = modulus - 1: the abort
C9_Witness ==
    Encoded /\ PassesSizeCheck /\ retries = 1
        /\ Add(base_selector, FeltFromNat(retries)) = Felt_MAX
        /\ result.tag = "Panic"

\* C10: two calls that differ only in retries have the same outcome; when
\* they succeed the two calldata have the same length and are equal at every
\* position but the selector's, where they differ.
C10_RetriesOnlyInSelector ==
    Encoded =>
      \A r \in RetriesSet \ {retries} :
        LET o == OtherRetries(r)
        IN  /\ o.tag = result.tag /\ o.err = result.err /\ o.args = result.args
            /\ Len(o.value) = Len(result.value)
            /\ \A i \in 1..Len(result.value) :
                 (i = 3) <=> (o.value[i] # result.value[i])

\* a first retry
C10_Witness ==
    Encoded /\ result.tag = "Ok" /\ retries = 1 /\ PayloadLen > 31
        /\ OtherRetries(0).tag = "Ok"
        /\ OtherRetries(0).value[3] # result.value[3]

====
